---- MODULE Spec2Model ----
(***************************************************************************)
(* Model of the two monitoring scripts of the repository:                  *)
(*   src/main.py                    the feed monitor (change detector,     *)
(*                                  supervised run loop with backoff)      *)
(*   src/crypto-trading-signals.py  the signal bot (notification gate,     *)
(*                                  sink verification, run loop)           *)
(* Each script is a sequential program; its position is a program counter  *)
(* and every loop iteration or call is one action.                         *)
(***************************************************************************)
EXTENDS FiniteSets, Integers, Sequences, TLC

(***************************************************************************)
(* Bounds of the model.                                                    *)
(***************************************************************************)
\* longest feed (table body) returned by one poll
MaxRows == 2

(***************************************************************************)
(* Text helpers: table cells are texts, modelled as sequences of           *)
(* characters (numeric cells) or strings (coin and timestamp cells).       *)
(***************************************************************************)
Digit == {"0", "1", "2", "3", "4", "5", "6", "7", "8", "9"}

DigitVal(c) ==
    CASE c = "0" -> 0 [] c = "1" -> 1 [] c = "2" -> 2 [] c = "3" -> 3
      [] c = "4" -> 4 [] c = "5" -> 5 [] c = "6" -> 6 [] c = "7" -> 7
      [] c = "8" -> 8 [] c = "9" -> 9

\* int(text) succeeds: a non-empty run of decimal digits
IntParses(t) == Len(t) > 0 /\ \A k \in 1..Len(t) : t[k] \in Digit

RECURSIVE IntOf(_)
\* int(text) of a text that parses
IntOf(t) == IF Len(t) = 0 THEN 0
            ELSE 10 * IntOf(SubSeq(t, 1, Len(t) - 1)) + DigitVal(t[Len(t)])

\* float(text) succeeds: digits with at most one decimal point
FloatParses(t) ==
    /\ \E k \in 1..Len(t) : t[k] \in Digit
    /\ \A k \in 1..Len(t) : t[k] \in Digit \cup {"."}
    /\ Cardinality({k \in 1..Len(t) : t[k] = "."}) <= 1

Min(a, b) == IF a < b THEN a ELSE b

(***************************************************************************)
(* src/main.py -- the feed monitor                                         *)
(***************************************************************************)
max_retries == 5

\* cells the feed can show
Coins == {"B", "B_1"}
Stamps == {"1", "1_1"}

\* readable: row.find_elements and the cells' text can be read (no stale element)
GoodRows == [coin : Coins, readable : {TRUE}, ncols : {8}, pings : {<<"5">>},
             vol : {<<"1", ".", "5">>}, timestamp : Stamps]
ShortRows == [coin : {"B"}, readable : {TRUE}, ncols : {7}, pings : {<<"5">>},
              vol : {<<"1", ".", "5">>}, timestamp : {"1"}]
BadRows == [coin : {"B"}, readable : {TRUE}, ncols : {8}, pings : {<<"5">>},
            vol : {<<"n", "a">>}, timestamp : {"1"}]
           \cup
           [coin : {"B"}, readable : {TRUE}, ncols : {8}, pings : {<<"x">>},
            vol : {<<"1", ".", "5">>}, timestamp : {"1"}]
           \cup
           [coin : {"B"}, readable : {FALSE}, ncols : {8}, pings : {<<"5">>},
            vol : {<<"1", ".", "5">>}, timestamp : {"1"}]
FeedRows == GoodRows \cup ShortRows \cup BadRows

Feeds == UNION {[1..n -> FeedRows] : n \in 0..MaxRows}

\* the row yields a coin_data dictionary (no continue, no exception)
RowParses(r) ==
    r.readable /\ r.ncols >= 8 /\ IntParses(r.pings) /\ FloatParses(r.vol)

\* entry_key = f"{coin}_{timestamp}"
EntryKey(r) == r.coin \o "_" \o r.timestamp

\* identity of a feed row: its coin and its timestamp
RowId(r) == <<r.coin, r.timestamp>>

VARIABLES
    mpc,              \* position of main.py's run()
    retry_count,      \* run(): retry_count
    driver,           \* self.driver: "None", "live" or "quit" (quit, not None)
    last_processed,   \* self.last_processed
    rows,             \* check_updates(): rows of the cycle
    idx,              \* check_updates(): index of the next row
    current_entries,  \* check_updates(): current_entries
    cycleSent,        \* messages handed to send_telegram_message in this cycle
    pollResult,       \* outcome of the last check_updates(): "none", "ok", "failed"
    sleeps,           \* backoff sleeps of the consecutive failures so far
    prevRows,         \* history: ids of the parsed rows of the previous completed cycle
    notified          \* history: ids of the rows forwarded in earlier cycles

mainVars == <<mpc, retry_count, driver, last_processed, rows, idx, current_entries,
              cycleSent, pollResult, sleeps, prevRows, notified>>

VARIABLES
    spc,                \* position of the signal bot (main block, then run())
    status,             \* "running", "success" (stopped by the user) or "fatal"
    sdriver,            \* monitor.driver: "unset", "live" or "quit"
    verify,             \* verify_bot(): "pending", "ok", "getme_failed", "message_failed"
    now,                \* datetime.now(), in seconds
    last_notification,  \* notifier.last_notification
    monitored_pairs,    \* monitor.monitored_pairs
    nrows,              \* check_market_updates(): len(rows) of the cycle
    sidx,               \* check_market_updates(): index of the next row
    cycle,              \* outcome of the last cycle: "none", "running", "ok",
                        \* "nofeed" (no table) or "aborted" (a row raised)
    gate,               \* history: the send_signal call of the last row step
    lastCallAt,         \* history: per symbol, time of its last send_signal call
    lastOkAt            \* history: per symbol, time of its last delivered call

sigVars == <<spc, status, sdriver, verify, now, last_notification, monitored_pairs,
             nrows, sidx, cycle, gate, lastCallAt, lastOkAt>>

VARIABLES
    fpc,                \* position of a function checked on its own
    arg,                \* its argument
    res                 \* its locals and its result

fnVars == <<fpc, arg, res>>

vars == <<mainVars, sigVars, fnVars>>

MainInit ==
    /\ mpc = "while"
    /\ retry_count = 0
    /\ driver = "None"
    /\ last_processed = {}
    /\ rows = <<>>
    /\ idx = 1
    /\ current_entries = {}
    /\ cycleSent = <<>>
    /\ pollResult = "none"
    /\ sleeps = <<>>
    /\ prevRows = {}
    /\ notified = {}

cycleVars == <<rows, idx, current_entries, cycleSent, pollResult, prevRows,
               notified, last_processed>>

\* while retry_count < max_retries
RunWhile ==
    /\ UNCHANGED <<sigVars, fnVars>>
    /\ mpc = "while"
    /\ mpc' = IF retry_count < max_retries THEN "init" ELSE "finished"
    /\ UNCHANGED <<retry_count, driver, sleeps>>
    /\ UNCHANGED cycleVars

\* initialize_driver() returns True
InitDriverOk ==
    /\ UNCHANGED <<sigVars, fnVars>>
    /\ mpc = "init"
    /\ driver' = "live"
    /\ mpc' = "get"
    /\ UNCHANGED <<retry_count, sleeps>>
    /\ UNCHANGED cycleVars

\* initialize_driver() returns False: retry_count += 1; time.sleep(60); continue
InitDriverFail ==
    /\ UNCHANGED <<sigVars, fnVars>>
    /\ mpc = "init"
    /\ \E created \in BOOLEAN :
          driver' = IF created THEN "quit" ELSE driver
    /\ retry_count' = retry_count + 1
    /\ sleeps' = Append(sleeps, 60)
    /\ mpc' = "while"
    /\ UNCHANGED cycleVars

\* self.driver.get(self.base_url)
LoadPage ==
    /\ UNCHANGED <<sigVars, fnVars>>
    /\ mpc = "get"
    /\ \E ok \in BOOLEAN : mpc' = IF ok THEN "wait" ELSE "except"
    /\ UNCHANGED <<retry_count, driver, sleeps>>
    /\ UNCHANGED cycleVars

\* self.wait.until(presence of the table); retry_count = 0
WaitTable ==
    /\ UNCHANGED <<sigVars, fnVars>>
    /\ mpc = "wait"
    /\ \E ok \in BOOLEAN :
          IF ok
          THEN /\ retry_count' = 0
               /\ sleeps' = <<>>
               /\ mpc' = "poll"
          ELSE /\ mpc' = "except"
               /\ UNCHANGED <<retry_count, sleeps>>
    /\ UNCHANGED driver
    /\ UNCHANGED cycleVars

\* ids of the rows of a feed that parse
ParsedIds(f) == {RowId(f[k]) : k \in {j \in 1..Len(f) : RowParses(f[j])}}

\* ids of the rows handed to send_telegram_message
SentIds(log) == {<<log[k].coin, log[k].timestamp>> : k \in 1..Len(log)}

\* check_updates(): find the table and its rows; an exception here is caught
\* by the outer except, which returns False
CheckUpdatesBegin ==
    /\ UNCHANGED <<sigVars, fnVars>>
    /\ mpc = "poll"
    /\ current_entries' = {}
    /\ \E found \in BOOLEAN :
          IF found
          THEN /\ \E f \in Feeds : rows' = f
               /\ pollResult' = "running"
               /\ mpc' = "row"
          ELSE /\ rows' = <<>>
               /\ pollResult' = "failed"
               /\ mpc' = "sleep10"
    /\ UNCHANGED <<retry_count, driver, sleeps, last_processed, idx, cycleSent,
                   prevRows, notified>>

\* variant: every row is taken for new
IsNewEntry_Always(key, processed) == TRUE

\* new row: entry_key not in self.last_processed
IsNewEntry(key, processed) == key \notin processed

\* one iteration of "for row in rows"
CheckUpdatesRow ==
    /\ UNCHANGED <<sigVars, fnVars>>
    /\ mpc = "row"
    /\ idx <= Len(rows)
    /\ LET r == rows[idx] IN
          IF RowParses(r)
          THEN /\ current_entries' = current_entries \cup {EntryKey(r)}
               /\ IF IsNewEntry(EntryKey(r), last_processed)
                  THEN \E ok \in BOOLEAN :
                          cycleSent' = Append(cycleSent,
                              [coin |-> r.coin, timestamp |-> r.timestamp, ok |-> ok])
                  ELSE UNCHANGED cycleSent
          ELSE UNCHANGED <<current_entries, cycleSent>>
    /\ idx' = idx + 1
    /\ UNCHANGED <<mpc, retry_count, driver, sleeps, last_processed, rows, pollResult,
                   prevRows, notified>>

\* variant: the stored set grows (union with the earlier cycles)
StoredEntries_Union(processed, entries) == processed \cup entries

\* what the cycle stores: self.last_processed = current_entries
StoredEntries(processed, entries) == entries

\* after the loop: self.last_processed = current_entries; return True
CheckUpdatesEnd ==
    /\ UNCHANGED <<sigVars, fnVars>>
    /\ mpc = "row"
    /\ idx > Len(rows)
    /\ last_processed' = StoredEntries(last_processed, current_entries)
    /\ pollResult' = "ok"
    /\ mpc' = "sleep10"
    /\ UNCHANGED <<retry_count, driver, sleeps, rows, idx, current_entries, cycleSent,
                   prevRows, notified>>

\* time.sleep(10) between two polls; the result of check_updates() is not
\* read and its locals are gone (the history variables take note of the cycle)
PollSleep ==
    /\ UNCHANGED <<sigVars, fnVars>>
    /\ mpc = "sleep10"
    /\ mpc' = "poll"
    /\ prevRows' = IF pollResult = "ok" THEN ParsedIds(rows) ELSE prevRows
    /\ notified' = notified \cup SentIds(cycleSent)
    /\ rows' = <<>>
    /\ idx' = 1
    /\ cycleSent' = <<>>
    /\ current_entries' = {}
    /\ UNCHANGED <<retry_count, driver, sleeps, last_processed, pollResult>>

\* seconds slept before the next attempt after the count-th failure
BackoffSleep(count) == Min(300, 60 * count)

\* the handler gives up after this failure
GivesUp(count) == ~(count < max_retries)

\* except Exception: retry_count += 1; quit the driver; back off or break
RunExcept ==
    /\ UNCHANGED <<sigVars, fnVars>>
    /\ mpc = "except"
    /\ retry_count' = retry_count + 1
    /\ driver' = "None"
    /\ IF GivesUp(retry_count + 1)
       THEN /\ sleeps' = Append(sleeps, 0)
            /\ mpc' = "finished"
       ELSE /\ sleeps' = Append(sleeps, BackoffSleep(retry_count + 1))
            /\ mpc' = "while"
    /\ UNCHANGED cycleVars

\* KeyboardInterrupt: no handler of run() catches it, it leaves run()
RunInterrupt ==
    /\ UNCHANGED <<sigVars, fnVars>>
    /\ mpc \notin {"finished", "interrupted"}
    /\ mpc' = "interrupted"
    /\ UNCHANGED <<retry_count, driver, sleeps>>
    /\ UNCHANGED cycleVars

(***************************************************************************)
(* src/crypto-trading-signals.py -- the signal bot                         *)
(***************************************************************************)
MIN_NOTIFICATION_INTERVAL == 300
max_age == 3600

\* the instants (seconds) at which the run loop can wake from a sleep: a sleep
\* lasts as long as the scheduler lets it, and a cycle's own I/O is shorter
\* than the granularity of these instants
ClockValues == {0, 150, 300, 450, 3600, 3750, 3900}

SigCoins == {"B", "E"}

SigFeedRows == [coin : SigCoins, ncols : {8}, pings : {<<"5">>}]
               \cup [coin : {"B"}, ncols : {8}, pings : {<<"3">>, <<"x">>}]
               \cup [coin : {"B"}, ncols : {1}, pings : {<<"5">>}]

\* symbol = f"{cols[0].text}USDT"
SymbolOf(coin) == coin \o "USDT"

Symbols == {SymbolOf(c) : c \in SigCoins}

\* what get_binance_data and calculate_indicators give for a symbol: no data,
\* or the last close and the last value of each indicator (MACD in tenths);
\* nan names the indicators whose last value is NaN
NoData == [kind |-> "nodata"]
IndicatorSets ==
    {[kind |-> "data", price |-> 100, EMA_short |-> 105, EMA_medium |-> 100,
      RSI |-> 45, MACD |-> 12, MACD_signal |-> 10, ATR |-> 2, nan |-> {}],
     [kind |-> "data", price |-> 100, EMA_short |-> 95, EMA_medium |-> 100,
      RSI |-> 45, MACD |-> 10, MACD_signal |-> 12, ATR |-> 2, nan |-> {}],
     [kind |-> "data", price |-> 100, EMA_short |-> 100, EMA_medium |-> 100,
      RSI |-> 45, MACD |-> 12, MACD_signal |-> 12, ATR |-> 2, nan |-> {}]}
MarketInputs == {NoData} \cup IndicatorSets

RSI_OVERSOLD == 30
RSI_OVERBOUGHT == 70

NoSignal == [signal_type |-> "NONE"]

\* a comparison with a NaN operand is False
IsNumber(m, names) == names \cap m.nan = {}

\* EMA_short[-1] > EMA_medium[-1] and RSI[-1] < RSI_OVERBOUGHT
\* and MACD[-1] > MACD_signal[-1]
LongCondition(m) ==
    /\ IsNumber(m, {"EMA_short", "EMA_medium"}) /\ m.EMA_short > m.EMA_medium
    /\ IsNumber(m, {"RSI"}) /\ m.RSI < RSI_OVERBOUGHT
    /\ IsNumber(m, {"MACD", "MACD_signal"}) /\ m.MACD > m.MACD_signal

ShortCondition_CopiedTrend(m) ==
    /\ IsNumber(m, {"EMA_short", "EMA_medium"}) /\ m.EMA_short > m.EMA_medium
    /\ IsNumber(m, {"RSI"}) /\ m.RSI > RSI_OVERSOLD
    /\ IsNumber(m, {"MACD", "MACD_signal"}) /\ m.MACD > m.MACD_signal

\* EMA_short[-1] < EMA_medium[-1] and RSI[-1] > RSI_OVERSOLD
\* and MACD[-1] < MACD_signal[-1]
ShortCondition(m) ==
    /\ IsNumber(m, {"EMA_short", "EMA_medium"}) /\ m.EMA_short < m.EMA_medium
    /\ IsNumber(m, {"RSI"}) /\ m.RSI > RSI_OVERSOLD
    /\ IsNumber(m, {"MACD", "MACD_signal"}) /\ m.MACD < m.MACD_signal

Levels_Swapped(signal_type, price, atr) ==
    IF signal_type = "LONG"
    THEN [stop_loss |-> price + 2 * atr, take_profit |-> price - 3 * atr]
    ELSE [stop_loss |-> price - 2 * atr, take_profit |-> price + 3 * atr]

\* stop_loss and take_profit of a signal: price -/+ atr * 2 and price +/- atr * 3
Levels(signal_type, price, atr) ==
    IF signal_type = "LONG"
    THEN [stop_loss |-> price - 2 * atr, take_profit |-> price + 3 * atr]
    ELSE [stop_loss |-> price + 2 * atr, take_profit |-> price - 3 * atr]

\* the fields of a signal that are NaN: the levels when the ATR is, the
\* Bollinger bands of its indicators dict when they are
SignalNaN(m) ==
    (IF "ATR" \in m.nan THEN {"stop_loss", "take_profit"} ELSE {})
    \cup (m.nan \cap {"BB_upper", "BB_lower"})

TradingSignal(signal_type, m) ==
    [signal_type |-> signal_type, price |-> m.price, entry |-> m.price,
     stop_loss |-> Levels(signal_type, m.price, m.ATR).stop_loss,
     take_profit |-> Levels(signal_type, m.price, m.ATR).take_profit,
     confidence |-> 80, nan |-> SignalNaN(m)]

\* analyze_market(): the long rule, then the short rule, else None
analyze_market(m) ==
    IF m.kind = "nodata" THEN NoSignal
    ELSE IF LongCondition(m) THEN TradingSignal("LONG", m)
    ELSE IF ShortCondition(m) THEN TradingSignal("SHORT", m)
    ELSE NoSignal

\* process_market_data(): "if signal and signal.confidence > 0.6" (in percent)
Qualifies(sig) == sig.signal_type # "NONE" /\ sig.confidence > 60

Never == -1
NoGate == [kind |-> "none"]

SigInit ==
    /\ spc = "verify"
    /\ status = "running"
    /\ sdriver = "unset"
    /\ verify = "pending"
    /\ now = 0
    /\ last_notification = <<>>
    /\ monitored_pairs = <<>>
    /\ nrows = 0
    /\ sidx = 1
    /\ cycle = "none"
    /\ gate = NoGate
    /\ lastCallAt = [s \in Symbols |-> Never]
    /\ lastOkAt = [s \in Symbols |-> Never]

notifierVars == <<last_notification, monitored_pairs, gate, lastCallAt, lastOkAt>>
feedVars == <<nrows, sidx, cycle>>

\* TelegramBot.__init__ -> verify_bot(): getMe, then the test message, whose
\* result is not read; an exception leaves the main block through its
\* "except Exception", which re-raises
VerifyBot ==
    /\ UNCHANGED <<mainVars, fnVars>>
    /\ spc = "verify"
    /\ \E getme \in BOOLEAN, delivered \in BOOLEAN :
          IF getme
          THEN /\ verify' = IF delivered THEN "ok" ELSE "message_failed"
               /\ spc' = "monitor"
               /\ UNCHANGED status
          ELSE /\ verify' = "getme_failed"
               /\ spc' = "exit"
               /\ status' = "fatal"
    /\ UNCHANGED <<sdriver, now>>
    /\ UNCHANGED notifierVars
    /\ UNCHANGED feedVars

\* CryptoMonitor.__init__ -> initialize_driver(); it has no handler
MonitorInit ==
    /\ UNCHANGED <<mainVars, fnVars>>
    /\ spc = "monitor"
    /\ \E ok \in BOOLEAN :
          IF ok
          THEN /\ sdriver' = "live"
               /\ spc' = "run"
               /\ UNCHANGED status
          ELSE /\ \E created \in BOOLEAN :
                     sdriver' = IF created THEN "live" ELSE "unset"
               /\ spc' = "exit"
               /\ status' = "fatal"
    /\ UNCHANGED <<verify, now>>
    /\ UNCHANGED notifierVars
    /\ UNCHANGED feedVars

\* run(): driver.get(url), then the "Trading Bot Started" message (result not
\* read); an exception is re-raised after the finally clause quits the driver
RunStart ==
    /\ UNCHANGED <<mainVars, fnVars>>
    /\ spc = "run"
    /\ \E ok \in BOOLEAN :
          IF ok
          THEN /\ spc' = "poll"
               /\ UNCHANGED <<status, sdriver>>
          ELSE /\ spc' = "exit"
               /\ status' = "fatal"
               /\ sdriver' = "quit"
    /\ UNCHANGED <<verify, now>>
    /\ UNCHANGED notifierVars
    /\ UNCHANGED feedVars

\* check_market_updates(): wait for the table and read its rows; a timeout is
\* logged and re-raised to run(), which logs it and sleeps 5 seconds
MarketUpdatesBegin ==
    /\ UNCHANGED <<mainVars, fnVars>>
    /\ spc = "poll"
    /\ \E found \in BOOLEAN :
          IF found
          THEN /\ \E n \in 0..MaxRows : nrows' = n
               /\ cycle' = "running"
               /\ spc' = "row"
          ELSE /\ nrows' = 0
               /\ cycle' = "nofeed"
               /\ spc' = "sleep5"
    /\ sidx' = 1
    /\ gate' = NoGate
    /\ UNCHANGED <<status, sdriver, verify, now, last_notification, monitored_pairs,
                   lastCallAt, lastOkAt>>

\* variant: the comparison with the interval is turned around
CanSendNotification_Inverted(record, symbol, t) ==
    \/ symbol \notin DOMAIN record
    \/ t - record[symbol] <= MIN_NOTIFICATION_INTERVAL

\* _can_send_notification(symbol)
CanSendNotification(record, symbol, t) ==
    \/ symbol \notin DOMAIN record
    \/ t - record[symbol] >= MIN_NOTIFICATION_INTERVAL

\* variant: the record is written whatever the sink returned
RecordAfterSend_Always(record, symbol, success, t) ==
    [s \in DOMAIN record \cup {symbol} |-> IF s = symbol THEN t ELSE record[s]]

\* send_signal(): the record after a call whose sink result is success
RecordAfterSend(record, symbol, success, t) ==
    IF success
    THEN [s \in DOMAIN record \cup {symbol} |-> IF s = symbol THEN t ELSE record[s]]
    ELSE record

\* process_market_data(): the MarketState stored for a qualifying signal
\* (start_time, which nothing reads, is left out)
MarketStateAfter(pairs, symbol, sig, t) ==
    IF symbol \notin DOMAIN pairs
    THEN [s \in DOMAIN pairs \cup {symbol} |->
             IF s = symbol
             THEN [current_price |-> sig.price,
                   entry_points |-> <<sig.entry>>, stop_loss |-> sig.stop_loss,
                   take_profit |-> sig.take_profit, signal_type |-> sig.signal_type]
             ELSE pairs[s]]
    ELSE pairs

\* one iteration of "for row in rows" in check_market_updates(), with the
\* process_market_data() and send_signal() calls it makes; the row's cells are
\* read when its turn comes
MarketUpdatesRow ==
    /\ UNCHANGED <<mainVars, fnVars>>
    /\ spc = "row"
    /\ sidx <= nrows
    /\ \E r \in SigFeedRows :
       LET symbol == SymbolOf(r.coin) IN
          IF r.ncols >= 2 /\ ~IntParses(r.pings)
          THEN \* int(cols[1].text) raises: the cycle is left
               /\ cycle' = "aborted"
               /\ spc' = "sleep5"
               /\ gate' = NoGate
               /\ UNCHANGED <<sidx, last_notification, monitored_pairs, lastCallAt,
                              lastOkAt>>
          ELSE /\ sidx' = sidx + 1
               /\ UNCHANGED <<cycle, spc>>
               /\ IF r.ncols >= 2 /\ IntOf(r.pings) >= 4
                  THEN \E m \in MarketInputs, sinkOk \in BOOLEAN :
                          LET sig == analyze_market(m)
                              can == CanSendNotification(last_notification, symbol, now)
                          IN
                             IF Qualifies(sig)
                             THEN /\ last_notification' =
                                        RecordAfterSend(last_notification, symbol,
                                                        can /\ sinkOk, now)
                                  /\ monitored_pairs' =
                                        MarketStateAfter(monitored_pairs, symbol, sig, now)
                                  /\ gate' = [kind |-> IF ~can THEN "suppressed"
                                                       ELSE IF sinkOk THEN "sent"
                                                       ELSE "failed",
                                              symbol |-> symbol,
                                              at |-> now,
                                              signal |-> sig,
                                              recordBefore |->
                                                  IF symbol \in DOMAIN last_notification
                                                  THEN last_notification[symbol]
                                                  ELSE Never,
                                              prevCallAt |-> lastCallAt[symbol],
                                              prevOkAt |-> lastOkAt[symbol]]
                                  /\ lastCallAt' = [lastCallAt EXCEPT ![symbol] = now]
                                  /\ lastOkAt' = IF can /\ sinkOk
                                                 THEN [lastOkAt EXCEPT ![symbol] = now]
                                                 ELSE lastOkAt
                             ELSE /\ gate' = NoGate
                                  /\ UNCHANGED <<last_notification, monitored_pairs,
                                                 lastCallAt, lastOkAt>>
                  ELSE /\ gate' = NoGate
                       /\ UNCHANGED <<last_notification, monitored_pairs, lastCallAt,
                                      lastOkAt>>
    /\ UNCHANGED <<status, sdriver, verify, now, nrows>>

\* variant: the purge keeps the old entries and drops the young ones
cleanup_old_notifications_Inverted(record, t) ==
    [s \in {x \in DOMAIN record : t - record[x] >= max_age} |-> record[s]]

\* cleanup_old_notifications(max_age)
cleanup_old_notifications(record, t) ==
    [s \in {x \in DOMAIN record : t - record[x] < max_age} |-> record[s]]

\* after the loop: self.notifier.cleanup_old_notifications(); back in run()
MarketUpdatesEnd ==
    /\ UNCHANGED <<mainVars, fnVars>>
    /\ spc = "row"
    /\ sidx > nrows
    /\ last_notification' = cleanup_old_notifications(last_notification, now)
    /\ cycle' = "ok"
    /\ spc' = "sleep60"
    /\ gate' = NoGate
    /\ UNCHANGED <<status, sdriver, verify, now, monitored_pairs, nrows, sidx,
                   lastCallAt, lastOkAt>>

\* time.sleep(60) after a cycle, time.sleep(5) after a cycle that raised
RunSleep ==
    /\ UNCHANGED <<mainVars, fnVars>>
    /\ spc \in {"sleep60", "sleep5"}
    /\ \E t \in ClockValues :
          /\ t > now
          /\ now' = t
    /\ spc' = "poll"
    /\ gate' = NoGate
    /\ UNCHANGED <<status, sdriver, verify, last_notification, monitored_pairs,
                   lastCallAt, lastOkAt>>
    /\ UNCHANGED feedVars

\* KeyboardInterrupt inside run(): "except KeyboardInterrupt" logs it and the
\* finally clause quits the driver; run() returns
SigInterrupt ==
    /\ UNCHANGED <<mainVars, fnVars>>
    /\ spc \in {"run", "poll", "row", "sleep60", "sleep5"}
    /\ spc' = "exit"
    /\ status' = "success"
    /\ sdriver' = "quit"
    /\ gate' = NoGate
    /\ UNCHANGED <<verify, now, last_notification, monitored_pairs, lastCallAt,
                   lastOkAt>>
    /\ UNCHANGED feedVars

\* KeyboardInterrupt before run(): the main block logs it and ends
BootInterrupt ==
    /\ UNCHANGED <<mainVars, fnVars>>
    /\ spc \in {"verify", "monitor"}
    /\ spc' = "exit"
    /\ status' = "success"
    /\ \E created \in BOOLEAN :
          sdriver' = IF created /\ spc = "monitor" THEN "live" ELSE sdriver
    /\ UNCHANGED <<verify, now>>
    /\ UNCHANGED notifierVars
    /\ UNCHANGED feedVars

(***************************************************************************)
(* Specifications: one per script; the other script stays where it is.     *)
(***************************************************************************)
\* no function is being checked on its own
FnIdle == fpc = "idle" /\ arg = <<>> /\ res = <<>>

Init == MainInit /\ SigInit /\ FnIdle

\* src/main.py: run() and the check_updates() it calls
Next ==
    \/ RunWhile
    \/ InitDriverOk
    \/ InitDriverFail
    \/ LoadPage
    \/ WaitTable
    \/ CheckUpdatesBegin
    \/ CheckUpdatesRow
    \/ CheckUpdatesEnd
    \/ PollSleep
    \/ RunExcept
    \/ RunInterrupt

\* src/crypto-trading-signals.py: the main block, run() and what it calls
NextSig ==
    \/ VerifyBot
    \/ MonitorInit
    \/ RunStart
    \/ MarketUpdatesBegin
    \/ MarketUpdatesRow
    \/ MarketUpdatesEnd
    \/ RunSleep
    \/ SigInterrupt
    \/ BootInterrupt

\* src/main.py
Spec == Init /\ [][Next]_vars

\* src/crypto-trading-signals.py
SpecSig == Init /\ [][NextSig]_vars

(***************************************************************************)
(* The two Telegram senders, checked on their own: send_message of the    *)
(* signal bot and send_telegram_message of the feed monitor.               *)
(***************************************************************************)
\* send_message(text, retries=3)
retries == 3

\* send_telegram_message: max_retries = 3
send_max_retries == 3

\* what one attempt's try body does: it completes, it raises a
\* requests.exceptions.RequestException (post, raise_for_status), or it raises
\* another exception (the ValueError of an answer whose 'ok' is false)
AttemptOutcomes == {"ok", "RequestException", "Exception"}

Senders == {"send_message", "send_telegram_message"}

SendInputs == [fn : Senders, outcomes : [1..retries -> AttemptOutcomes]]

RECURSIVE Pow2(_)
Pow2(n) == IF n = 0 THEN 1 ELSE 2 * Pow2(n - 1)

RetryDelay_Doubled(attempt) == Pow2(attempt + 1)

\* delay = 2 ** attempt
RetryDelay(attempt) == Pow2(attempt)

SendInit ==
    /\ fpc = "send"
    /\ arg \in SendInputs
    /\ res = [attempt |-> 0, tries |-> 0, delays |-> <<>>, value |-> "pending"]

SendReturn(value) ==
    /\ res' = [res EXCEPT !.tries = @ + 1, !.value = value]
    /\ fpc' = "returned"

SendRetry ==
    /\ res' = [res EXCEPT !.tries = @ + 1,
                          !.attempt = @ + 1,
                          !.delays = Append(@, RetryDelay(res.attempt))]
    /\ fpc' = "send"

\* one iteration of the loop of TelegramBot.send_message
SendMessageAttempt ==
    /\ fpc = "send"
    /\ arg.fn = "send_message"
    /\ res.attempt < retries
    /\ LET outcome == arg.outcomes[res.attempt + 1] IN
         CASE outcome = "ok" -> SendReturn("True")
           [] outcome = "RequestException" ->
                IF res.attempt < retries - 1
                THEN SendRetry
                ELSE SendReturn("False")
           [] outcome = "Exception" -> SendReturn("False")
    /\ UNCHANGED <<arg, mainVars, sigVars>>

\* one iteration of the loop of CryptoMonitor.send_telegram_message
SendTelegramAttempt ==
    /\ fpc = "send"
    /\ arg.fn = "send_telegram_message"
    /\ res.attempt < send_max_retries
    /\ LET outcome == arg.outcomes[res.attempt + 1] IN
         IF outcome = "ok"
         THEN SendReturn("True")
         ELSE IF res.attempt = send_max_retries - 1
              THEN SendReturn("False")
              ELSE SendRetry
    /\ UNCHANGED <<arg, mainVars, sigVars>>

NextSend ==
    \/ SendMessageAttempt
    \/ SendTelegramAttempt

InitSend == MainInit /\ SigInit /\ SendInit

SpecSend == InitSend /\ [][NextSend]_vars

(***************************************************************************)
(* MarketAnalyzer, checked on its own: calculate_indicators and            *)
(* analyze_market over candle windows.                                     *)
(***************************************************************************)
RSI_PERIOD == 14
EMA_SHORT == 9
EMA_MEDIUM == 21
EMA_LONG == 50

\* talib's defaults: MACD(close) is MACD(12, 26, 9), BBANDS(close) has
\* timeperiod 5 and ATR(high, low, close) has timeperiod 14
MACD_SLOW == 26
MACD_SIGNAL == 9
BBANDS_PERIOD == 5
ATR_PERIOD == 14

\* the fewest candles for which the last value of each output is a number:
\* an EMA or a band of period n needs n, RSI and ATR of period n need n + 1,
\* MACD and its signal line need (slow - 1) + (signal - 1) + 1
MinCandles ==
    [EMA_short |-> EMA_SHORT, EMA_medium |-> EMA_MEDIUM, EMA_long |-> EMA_LONG,
     RSI |-> RSI_PERIOD + 1,
     MACD |-> MACD_SLOW + MACD_SIGNAL - 1,
     MACD_signal |-> MACD_SLOW + MACD_SIGNAL - 1,
     BB_upper |-> BBANDS_PERIOD, BB_middle |-> BBANDS_PERIOD,
     BB_lower |-> BBANDS_PERIOD,
     ATR |-> ATR_PERIOD + 1]

\* the lengths of the window get_binance_data returns: limit=100, or fewer
\* for a pair listed less than 100 candles ago
WindowLengths == {0, 33, 34, 49, 50, 100}

\* a candle window: its length, the columns in which
\* pd.to_numeric(errors='coerce') left a NaN, and the last value each
\* indicator has where it is a number
CandleWindows ==
    [len : WindowLengths, coerced : {"none", "highlow", "close"},
     price : {100}, EMA_short : {95, 100, 105}, EMA_medium : {100},
     RSI : {25, 30, 45, 70, 75}, MACD : {12}, MACD_signal : {10, 12, 14},
     ATR : {2}]

\* the outputs whose last value is NaN: too few candles, or a NaN in a
\* column they are computed from
NaNOutputs(w) ==
    {k \in DOMAIN MinCandles : w.len < MinCandles[k]}
    \cup (IF w.coerced = "close" THEN DOMAIN MinCandles ELSE {})
    \cup (IF w.coerced = "highlow" THEN {"ATR"} ELSE {})

\* calculate_indicators(): {} for a window it cannot index, else the outputs
calculate_indicators(w) ==
    IF w.len = 0 THEN NoData
    ELSE [kind |-> "data", price |-> w.price, EMA_short |-> w.EMA_short,
          EMA_medium |-> w.EMA_medium, RSI |-> w.RSI, MACD |-> w.MACD,
          MACD_signal |-> w.MACD_signal, ATR |-> w.ATR, nan |-> NaNOutputs(w)]

AnalyzeInit ==
    /\ fpc = "candles"
    /\ arg \in CandleWindows
    /\ res = [indicators |-> NoData, signal |-> NoSignal]

\* indicators = self.analyzer.calculate_indicators(df)
CalculateIndicators ==
    /\ fpc = "candles"
    /\ res' = [res EXCEPT !.indicators = calculate_indicators(arg)]
    /\ fpc' = "indicators"
    /\ UNCHANGED <<arg, mainVars, sigVars>>

\* signal = self.analyzer.analyze_market(df, indicators)
AnalyzeMarket ==
    /\ fpc = "indicators"
    /\ res' = [res EXCEPT !.signal = analyze_market(res.indicators)]
    /\ fpc' = "signal"
    /\ UNCHANGED <<arg, mainVars, sigVars>>

NextAnalyze ==
    \/ CalculateIndicators
    \/ AnalyzeMarket

InitAnalyze == MainInit /\ SigInit /\ AnalyzeInit

SpecAnalyze == InitAnalyze /\ [][NextAnalyze]_vars

(***************************************************************************)
(* The confidence test of process_market_data, checked on its own over     *)
(* the signals a TradingSignal can hold.                                   *)
(***************************************************************************)
\* confidence: float, in percent
Confidences == 0..100

GateInputs ==
    {NoSignal}
    \cup [signal_type : {"LONG", "SHORT"}, price : {100}, entry : {100},
          stop_loss : {96, 104}, take_profit : {94, 106},
          confidence : Confidences, nan : {{}}]

GateInit ==
    /\ fpc = "gate"
    /\ arg \in GateInputs
    /\ res = [forwarded |-> FALSE]

\* "if signal and signal.confidence > 0.6: self.notifier.send_signal(signal)"
ProcessGate ==
    /\ fpc = "gate"
    /\ res' = [forwarded |-> Qualifies(arg)]
    /\ fpc' = "gated"
    /\ UNCHANGED <<arg, mainVars, sigVars>>

NextGate ==
    \/ ProcessGate

InitGate == MainInit /\ SigInit /\ GateInit

SpecGate == InitGate /\ [][NextGate]_vars

(***************************************************************************)
(* Properties                                                              *)
(***************************************************************************)

\* C1 (as stated): of any two send_signal calls for one symbol less than
\* 300 s apart, the second one does not invoke the sink.
C1_SecondCallNeverSends ==
    (gate.kind # "none" /\ gate.prevCallAt # Never
        /\ gate.at - gate.prevCallAt < MIN_NOTIFICATION_INTERVAL)
    => gate.kind = "suppressed"

\* C1 (amended): a send_signal call for a symbol that comes less than 300 s
\* after a delivered call for the same symbol does not invoke the sink, so
\* the two calls dispatch exactly one notification.
C1_CooldownAfterDelivery ==
    (gate.kind # "none" /\ gate.prevOkAt # Never
        /\ gate.at - gate.prevOkAt < MIN_NOTIFICATION_INTERVAL)
    => gate.kind = "suppressed"

C1_Witness ==
    /\ gate.kind = "suppressed"
    /\ gate.prevOkAt # Never
    /\ gate.at - gate.prevOkAt = 150

\* C2: the n-th consecutive failure of the run loop is followed by a sleep of
\* min(300, 60 * n) seconds (60, 120, 180, 240, 300).
C2_BackoffSchedule ==
    \A n \in 1..Len(sleeps) : sleeps[n] = Min(300, 60 * n)

\* C3: the run loop ends on the 6th consecutive failure, not before: it
\* survives 5 consecutive failures.
C3_EndsOnSixthFailure ==
    mpc = "finished" => Len(sleeps) = max_retries + 1

\* C4: a poll cycle that fails sends the run loop to reconnection: the step
\* in which check_updates() fails ends in the handler that counts the failure
\* and releases the driver.
C4_PollFailureReconnects ==
    [][(mpc = "poll" /\ pollResult' = "failed") => mpc' = "except"]_vars

\* C5: the rows forwarded in a cycle are exactly, in order, the rows that
\* parse and whose key coin_timestamp is not a key of the previous completed
\* cycle (first seen: forwarded; unchanged feed: nothing; same coin with a
\* new timestamp: forwarded).
C5_ForwardsExactlyNewKeys ==
    mpc \in {"row", "sleep10"} /\ pollResult \in {"running", "ok"} =>
        LET prevKeys == {id[1] \o "_" \o id[2] : id \in prevRows}
            Fresh(r) == RowParses(r) /\ (r.coin \o "_" \o r.timestamp) \notin prevKeys
            expected == SelectSeq(SubSeq(rows, 1, idx - 1), Fresh)
        IN /\ Len(cycleSent) = Len(expected)
           /\ \A k \in 1..Len(expected) :
                 /\ cycleSent[k].coin = expected[k].coin
                 /\ cycleSent[k].timestamp = expected[k].timestamp

C5_Witness ==
    /\ mpc = "sleep10"
    /\ pollResult = "ok"
    /\ prevRows = {<<"B", "1">>}
    /\ <<"B", "1">> \in notified
    /\ Len(rows) = 1
    /\ RowParses(rows[1]) /\ RowId(rows[1]) = <<"B", "1_1">>
    /\ Len(cycleSent) = 1

\* C6 (as stated): a row forwarded in some earlier cycle is never forwarded
\* again, in whatever later cycle it reappears.
C6_NeverNotifiedAgain ==
    \A k \in 1..Len(cycleSent) :
        <<cycleSent[k].coin, cycleSent[k].timestamp>> \notin notified

\* C6 (amended): a row that parsed in the previous completed cycle is not
\* forwarded when it reappears identically in this cycle.
C6_NotNotifiedInNextCycle ==
    \A k \in 1..Len(cycleSent) :
        <<cycleSent[k].coin, cycleSent[k].timestamp>> \notin prevRows

C6_Witness ==
    /\ mpc = "sleep10"
    /\ pollResult = "ok"
    /\ cycleSent = <<>>
    /\ \E k \in 1..Len(rows) :
          /\ RowParses(rows[k])
          /\ RowId(rows[k]) \in prevRows
          /\ RowId(rows[k]) \in notified

\* C7: a malformed row never aborts the batch: a cycle that got its rows
\* visits every one of them and ends normally.
C7_MalformedRowSkipped ==
    (spc \in {"sleep60", "sleep5"} /\ cycle \notin {"none", "nofeed"})
    => (cycle = "ok" /\ sidx > nrows)

\* C8: after send_signal the record of the symbol is the current time if the
\* sink reported success; otherwise it is what it was before the call, and
\* after a failed send a later signal for the symbol may be sent again.
C8_RecordFollowsSinkResult ==
    /\ gate.kind = "sent" =>
          /\ gate.symbol \in DOMAIN last_notification
          /\ last_notification[gate.symbol] = now
    /\ gate.kind \in {"failed", "suppressed"} =>
          IF gate.recordBefore = Never
          THEN gate.symbol \notin DOMAIN last_notification
          ELSE /\ gate.symbol \in DOMAIN last_notification
               /\ last_notification[gate.symbol] = gate.recordBefore
    /\ gate.kind = "failed" =>
          \A t \in ClockValues :
              t >= now =>
                 (\/ gate.symbol \notin DOMAIN last_notification
                  \/ t - last_notification[gate.symbol] >= MIN_NOTIFICATION_INTERVAL)

C8_Witness ==
    /\ gate.kind = "failed"
    /\ gate.recordBefore # Never
    /\ gate.symbol \in DOMAIN last_notification

\* C9: a failed verification of the sink at startup, the undelivered startup
\* message included, ends the bot with a fatal error before any poll.
C9_VerifyFailureIsFatal ==
    verify \in {"getme_failed", "message_failed"}
    => (status = "fatal" /\ spc = "exit")

\* C10: when a cancellation has ended the run loop, the browser driver has
\* been released.
C10_InterruptReleasesDriver ==
    mpc = "interrupted" => driver # "live"

\* C11: a cancellation takes effect between two poll cycles only: the bot
\* never ends while a cycle is partly processed.
C11_NoCancelMidCycle ==
    (spc = "exit" /\ status = "success") => cycle # "running"

\* C12 (as claimed): whatever makes an attempt fail, a send returns failure
\* only after all 3 attempts have failed.
C12_FailsOnlyAfterThreeAttempts ==
    (fpc = "returned" /\ res.value = "False") =>
        /\ res.tries = 3
        /\ \A i \in 1..3 : arg.outcomes[i] # "ok"

\* C12 (amended): a send makes at most 3 attempts, sleeps 1 s and then 2 s
\* between consecutive attempts, returns success at the first attempt that
\* succeeds, and returns failure after 3 failed attempts or, in send_message,
\* at the first attempt that fails with another error than a
\* RequestException; it has returned once the attempts are used up.
C12_BoundedRetry ==
    fpc \in {"send", "returned"} =>
        /\ res.tries <= 3
        /\ res.delays = SubSeq(<<1, 2>>, 1, Len(res.delays))
        /\ Len(res.delays) = res.attempt
        /\ res.value = "pending" <=> fpc = "send"
        /\ fpc = "send" => res.tries = res.attempt /\ res.attempt < 3
        /\ fpc = "returned" => res.tries = res.attempt + 1
        /\ \A i \in 1..res.attempt :
               IF arg.fn = "send_message"
               THEN arg.outcomes[i] = "RequestException"
               ELSE arg.outcomes[i] # "ok"
        /\ res.value = "True" => arg.outcomes[res.tries] = "ok"
        /\ res.value = "False" =>
              \/ res.tries = 3 /\ arg.outcomes[3] # "ok"
              \/ arg.fn = "send_message" /\ arg.outcomes[res.tries] = "Exception"

C12_Witness ==
    /\ fpc = "returned"
    /\ arg.fn = "send_message"
    /\ arg.outcomes[1] = "RequestException"
    /\ arg.outcomes[2] = "Exception"
    /\ res.value = "False"
    /\ res.tries = 2
    /\ res.delays = <<1>>

\* C13: whatever the indicator values, the LONG condition and the SHORT
\* condition are never both true.
C13_LongShortExclusive ==
    fpc \in {"indicators", "signal"} /\ res.indicators.kind = "data" =>
        ~(LongCondition(res.indicators) /\ ShortCondition(res.indicators))

C13_Witness ==
    /\ fpc = "signal"
    /\ res.indicators.kind = "data"
    /\ ShortCondition(res.indicators)
    /\ res.indicators.RSI < RSI_OVERBOUGHT
    /\ res.signal.signal_type = "SHORT"

\* C14: for every complete indicator set and price, analyze_market gives the
\* reference rule's result: LONG with stop price - 2 ATR and target
\* price + 3 ATR, else SHORT with stop price + 2 ATR and target price - 3 ATR,
\* else no signal.
C14_ReferenceRule ==
    fpc = "signal" /\ res.indicators.kind = "data" /\ res.indicators.nan = {} =>
        LET m == res.indicators
            sig == res.signal
        IN  IF m.EMA_short > m.EMA_medium /\ m.RSI < 70 /\ m.MACD > m.MACD_signal
            THEN /\ sig.signal_type = "LONG"
                 /\ sig.entry = m.price
                 /\ sig.stop_loss = m.price - 2 * m.ATR
                 /\ sig.take_profit = m.price + 3 * m.ATR
            ELSE IF m.EMA_short < m.EMA_medium /\ m.RSI > 30
                    /\ m.MACD < m.MACD_signal
            THEN /\ sig.signal_type = "SHORT"
                 /\ sig.entry = m.price
                 /\ sig.stop_loss = m.price + 2 * m.ATR
                 /\ sig.take_profit = m.price - 3 * m.ATR
            ELSE sig.signal_type = "NONE"

C14_Witness ==
    /\ fpc = "signal"
    /\ res.indicators.kind = "data"
    /\ res.indicators.nan = {}
    /\ res.indicators.EMA_short = 105 /\ res.indicators.EMA_medium = 100
    /\ res.indicators.RSI = 45
    /\ res.indicators.MACD = 12 /\ res.indicators.MACD_signal = 10
    /\ res.indicators.ATR = 2 /\ res.indicators.price = 100
    /\ res.signal.signal_type = "LONG"
    /\ res.signal.stop_loss = 96
    /\ res.signal.take_profit = 106

C16_StateFollowsLatestSignal ==
    gate.kind # "none" =>
        /\ gate.symbol \in DOMAIN monitored_pairs
        /\ LET st == monitored_pairs[gate.symbol] IN
              /\ st.signal_type = gate.signal.signal_type
              /\ st.stop_loss = gate.signal.stop_loss
              /\ st.take_profit = gate.signal.take_profit
              /\ st.entry_points[Len(st.entry_points)] = gate.signal.entry

\* C17: the purge runs in every poll cycle, whether or not the processing of
\* the rows failed: when a cycle is over, no entry of the record is older
\* than 3600 s, and after a purge every entry younger than 3600 s is still
\* there.
C17_PurgedAfterEveryCycle ==
    (spc \in {"sleep60", "sleep5"} /\ cycle # "none") =>
        \A s \in DOMAIN last_notification : now - last_notification[s] <= max_age

\* C18: for a candle window shorter than the longest lookback (50) no signal
\* is produced, and a signal that is produced holds no NaN level or
\* indicator value.
C18_NoSignalOnShortWindow ==
    fpc = "signal" =>
        /\ arg.len < EMA_LONG => res.signal.signal_type = "NONE"
        /\ res.signal.signal_type # "NONE" => res.signal.nan = {}

\* C19: a call of send_signal for a qualifying signal reaches the sink exactly
\* when the symbol has no entry in the record or its entry is at least 300 s
\* old (exactly 300 s is allowed); a suppressed call leaves the record as it
\* was.
C19_SuppressedExactlyWithinCooldown ==
    [][gate'.kind # "none" =>
          LET symbol == gate'.symbol
              allowed == \/ symbol \notin DOMAIN last_notification
                         \/ now - last_notification[symbol] >= 300
          IN  /\ gate'.kind = "suppressed" <=> ~allowed
              /\ gate'.kind = "suppressed" => last_notification' = last_notification]_vars

C19_Witness ==
    /\ gate.kind = "sent"
    /\ gate.recordBefore # Never
    /\ gate.at - gate.recordBefore = 300
    /\ last_notification[gate.symbol] = gate.at

\* C20: when a poll cycle completes, the stored key set becomes exactly the
\* set of keys of the well-formed rows of that cycle (it replaces the earlier
\* set) and is no larger than the number of rows polled; any other step, a
\* cycle that fails before completing included, leaves the stored set as it
\* was.
C20_StoredKeysAreThisCycleOnly ==
    [][IF mpc = "row" /\ mpc' = "sleep10"
       THEN /\ pollResult' = "ok"
            /\ last_processed' =
                  {rows[k].coin \o "_" \o rows[k].timestamp :
                       k \in {j \in 1..Len(rows) : RowParses(rows[j])}}
            /\ Cardinality(last_processed') <= Len(rows)
       ELSE last_processed' = last_processed]_vars

C20_Witness ==
    /\ mpc = "sleep10"
    /\ pollResult = "ok"
    /\ prevRows = {<<"B", "1">>}
    /\ Len(rows) = 2
    /\ ~RowParses(rows[1])
    /\ RowParses(rows[2]) /\ RowId(rows[2]) = <<"B", "1_1">>
    /\ last_processed = {"B_1_1"}

\* C21: within one poll cycle a new key gives at most one notification: no
\* two messages of a cycle are for the same coin and timestamp.
C21_OneMessagePerKeyInCycle ==
    \A j, k \in 1..Len(cycleSent) :
        (j # k) => ~(/\ cycleSent[j].coin = cycleSent[k].coin
                     /\ cycleSent[j].timestamp = cycleSent[k].timestamp)

\* C22: a new row's key is stored only if its notification was delivered:
\* after a completed cycle, the key of a row whose send returned failure is
\* not in the stored set.
C22_KeyStoredOnlyIfDelivered ==
    (mpc = "sleep10" /\ pollResult = "ok") =>
        \A k \in 1..Len(cycleSent) :
            ~cycleSent[k].ok =>
                (cycleSent[k].coin \o "_" \o cycleSent[k].timestamp)
                    \notin last_processed

\* C23: two delivered notifications for one symbol are at least 300 s apart,
\* whatever purges ran in between: while the last delivery for a symbol is
\* less than 300 s old its entry is still in the record.
C23_DeliveriesSpacedUnderPurge ==
    /\ (gate.kind = "sent" /\ gate.prevOkAt # Never) =>
           gate.at - gate.prevOkAt >= 300
    /\ \A s \in Symbols :
           (lastOkAt[s] # Never /\ now - lastOkAt[s] < 300) =>
               (s \in DOMAIN last_notification
                   /\ last_notification[s] = lastOkAt[s])

C23_Witness ==
    /\ gate.kind = "sent"
    /\ gate.prevOkAt = 0
    /\ gate.recordBefore = Never
    /\ gate.at = 3750
    /\ last_notification[gate.symbol] = 3750
====
